---- MODULE Spec2Model ----
(***************************************************************************)
(* A model of the game-scoring engine of nba-dashboard:                    *)
(*   src/src/utils/scoring_functions.py  (the scorers, the time parser,    *)
(*                                        the grade mapper)                *)
(*   src/src/utils/game_analyzer.py      (analyze_game)                    *)
(*   src/src/utils/config.py             (the weights)                     *)
(*   src/src/data/data_fetcher.py        (the fetch layer's outcomes and   *)
(*                                        process_play_by_play_data)       *)
(*   src/src/dashboard.py                (the loop of create_dashboard)    *)
(*   src/GameRanking.py                  (process_data and its cache)      *)
(*                                                                         *)
(* Numbers.  Python floats are modelled as exact rationals <<n, d>> with   *)
(* d > 0 and gcd(n, d) = 1; the float NaN is <<0, 0>>.  Every comparison   *)
(* with NaN is false and every arithmetic result with NaN is NaN, as in    *)
(* IEEE-754.  Binary rounding error of floats is not modelled.             *)
(*                                                                         *)
(* Tables.  A pandas DataFrame is a sequence of rows (records); columns    *)
(* that a function adds to a table are tracked in a set of column names.   *)
(* A SCOREMARGIN cell is a record [k, v]:                                  *)
(*   k = "TIE"   the string 'TIE'          (object column, as fetched)     *)
(*   k = "STR"   the numeric string str(v) (object column, as fetched)     *)
(*   k = "BAD"   a non-numeric string      (object column, as fetched)     *)
(*   k = "NONE"  None                      (object column, as fetched)     *)
(*   k = "NUM"   the float v               (float column)                  *)
(*   k = "NAN"   the float NaN             (float column)                  *)
(* A PCTIMESTRING cell is [na, s]: na = TRUE is None, otherwise the string *)
(* whose characters are the sequence s.                                    *)
(***************************************************************************)
EXTENDS Integers, Sequences, FiniteSets, TLC

\* ------------------------------------------------------------------------
\* Exact rational arithmetic with NaN
\* ------------------------------------------------------------------------

Abs(i) == IF i < 0 THEN -i ELSE i

RECURSIVE GCD(_, _)
GCD(a, b) == IF b = 0 THEN a ELSE GCD(b, a % b)

LCM(a, b) == (a \div GCD(a, b)) * b

NaN == <<0, 0>>

IsNaN(x) == x[2] = 0

Q(n, d) ==
    IF d = 0 THEN NaN
    ELSE LET g == GCD(Abs(n), Abs(d))
             s == IF d < 0 THEN -1 ELSE 1
         IN  <<(s * n) \div g, (s * d) \div g>>

R(i) == <<i, 1>>

RAdd(x, y) ==
    IF IsNaN(x) \/ IsNaN(y) THEN NaN
    ELSE LET m == LCM(x[2], y[2])
         IN  Q(x[1] * (m \div x[2]) + y[1] * (m \div y[2]), m)

RNeg(x) == IF IsNaN(x) THEN NaN ELSE <<-x[1], x[2]>>

RSub(x, y) == RAdd(x, RNeg(y))

RMul(x, y) ==
    IF IsNaN(x) \/ IsNaN(y) THEN NaN
    ELSE LET a == Q(x[1], y[2])
             b == Q(y[1], x[2])
         IN  Q(a[1] * b[1], a[2] * b[2])

RDiv(x, y) ==
    IF IsNaN(x) \/ IsNaN(y) \/ y[1] = 0 THEN NaN
    ELSE RMul(x, Q(y[2], y[1]))

RAbs(x) == IF IsNaN(x) THEN NaN ELSE <<Abs(x[1]), x[2]>>

RLe(x, y) == ~IsNaN(x) /\ ~IsNaN(y) /\ x[1] * y[2] <= y[1] * x[2]

RLt(x, y) == ~IsNaN(x) /\ ~IsNaN(y) /\ x[1] * y[2] < y[1] * x[2]

RGe(x, y) == RLe(y, x)

RGt(x, y) == RLt(y, x)

\* round(x, 1): to one decimal, ties to the even tenth; round(nan, 1) is nan
Round1(x) ==
    IF IsNaN(x) THEN NaN
    ELSE LET t == 10 * x[1]
             f == t \div x[2]
             r == t - f * x[2]
             c == IF 2 * r < x[2] THEN f
                  ELSE IF 2 * r > x[2] THEN f + 1
                  ELSE IF f % 2 = 0 THEN f ELSE f + 1
         IN  Q(c, 10)

RECURSIVE RSum(_)
RSum(s) == IF s = <<>> THEN R(0) ELSE RAdd(Head(s), RSum(Tail(s)))

\* pandas Series.mean(): NaN entries are skipped; NaN when nothing is left
SkipNaN(s) == SelectSeq(s, LAMBDA x : ~IsNaN(x))

Mean(s) ==
    LET t == SkipNaN(s)
    IN  IF t = <<>> THEN NaN ELSE RDiv(RSum(t), R(Len(t)))

\* pandas Series.max(): NaN entries are skipped; NaN when nothing is left
RECURSIVE SeriesMaxFrom(_, _)
SeriesMaxFrom(m, s) ==
    IF s = <<>> THEN m
    ELSE SeriesMaxFrom(IF RGt(Head(s), m) THEN Head(s) ELSE m, Tail(s))

SeriesMax(s) ==
    LET t == SkipNaN(s)
    IN  IF t = <<>> THEN NaN ELSE SeriesMaxFrom(Head(t), Tail(t))

\* Python's builtin max(a, b): b only when b > a
PyMax2(a, b) == IF RGt(b, a) THEN b ELSE a

\* Python's builtin max(list) on a non-empty list
RECURSIVE PyMaxFrom(_, _)
PyMaxFrom(m, s) ==
    IF s = <<>> THEN m ELSE PyMaxFrom(PyMax2(m, Head(s)), Tail(s))

PyMax(s) == PyMaxFrom(Head(s), Tail(s))

\* ------------------------------------------------------------------------
\* config.py
\* ------------------------------------------------------------------------

\* the configuration with 'margin_weight': 0.2
WEIGHT_CONFIG_margin20 ==
    [period_weights          |-> <<Q(33, 100), Q(33, 100), Q(34, 100), Q(0, 100)>>,
     extra_period_weight     |-> Q(5, 100),
     lead_change_weight      |-> Q(5, 100),
     buzzer_beater_weight    |-> Q(0, 10),
     fg3_pct_weight          |-> Q(5, 100),
     star_performance_weight |-> Q(1, 10),
     margin_weight           |-> Q(20, 100),
     max_total_score         |-> Q(50, 100)]

WEIGHT_CONFIG ==
    [period_weights          |-> <<Q(33, 100), Q(33, 100), Q(34, 100), Q(0, 100)>>,
     extra_period_weight     |-> Q(5, 100),
     lead_change_weight      |-> Q(5, 100),
     buzzer_beater_weight    |-> Q(0, 10),
     fg3_pct_weight          |-> Q(5, 100),
     star_performance_weight |-> Q(1, 10),
     margin_weight           |-> Q(25, 100),
     max_total_score         |-> Q(50, 100)]

\* the dict comprehension of config.py: period k -> weight * max_total_score
ADJUSTED_PERIOD_WEIGHTS ==
    [k \in 1..4 |-> RMul(WEIGHT_CONFIG.period_weights[k], WEIGHT_CONFIG.max_total_score)]

\* the expression weight * 100 that every scorer starts from
Full(weight) == RMul(weight, R(100))

\* ------------------------------------------------------------------------
\* scoring_functions.py: convert_pctimestring_to_seconds
\* ------------------------------------------------------------------------

Digits == <<"0", "1", "2", "3", "4", "5", "6", "7", "8", "9">>

IsDigit(c) == \E i \in 1..10 : Digits[i] = c

DigitVal(c) == (CHOOSE i \in 1..10 : Digits[i] = c) - 1

AllDigits(s) == \A i \in 1..Len(s) : IsDigit(s[i])

RECURSIVE DigitsVal(_)
DigitsVal(s) ==
    IF s = <<>> THEN 0
    ELSE 10 * DigitsVal(SubSeq(s, 1, Len(s) - 1)) + DigitVal(s[Len(s)])

RECURSIVE Pow10(_)
Pow10(k) == IF k = 0 THEN 1 ELSE 10 * Pow10(k - 1)

HasSign(s) == s # <<>> /\ s[1] \in {"-", "+"}

Unsigned(s) == IF HasSign(s) THEN Tail(s) ELSE s

SignOf(s) == IF s # <<>> /\ s[1] = "-" THEN -1 ELSE 1

\* int(s) succeeds: an optional sign and at least one digit
PyIntOk(s) == Unsigned(s) # <<>> /\ AllDigits(Unsigned(s))

PyInt(s) == SignOf(s) * DigitsVal(Unsigned(s))

Dots(s) == {i \in 1..Len(s) : s[i] = "."}

\* float(s) succeeds: an optional sign, digits with at most one '.', and at
\* least one digit
PyFloatOk(s) ==
    LET u == Unsigned(s)
        w == SelectSeq(u, LAMBDA c : c # ".")
    IN  /\ Cardinality(Dots(u)) <= 1
        /\ w # <<>>
        /\ AllDigits(w)

PyFloat(s) ==
    LET u == Unsigned(s)
        w == SelectSeq(u, LAMBDA c : c # ".")
        k == IF Dots(u) = {} THEN 0 ELSE Len(u) - (CHOOSE i \in Dots(u) : TRUE)
    IN  Q(SignOf(s) * DigitsVal(w), Pow10(k))

Colons(s) == {i \in 1..Len(s) : s[i] = ":"}

\* the cell is [na, s]; None has na = TRUE
convert_pctimestring_to_seconds(pctimestring) ==
    IF pctimestring.na \/ pctimestring.s = <<>> THEN R(0)
    ELSE IF Cardinality(Colons(pctimestring.s)) # 1 THEN R(0)   \* len(parts) != 2
    ELSE LET i       == CHOOSE j \in Colons(pctimestring.s) : TRUE
             minutes == SubSeq(pctimestring.s, 1, i - 1)
             seconds == SubSeq(pctimestring.s, i + 1, Len(pctimestring.s))
         IN  IF ~PyIntOk(minutes) \/ ~PyFloatOk(seconds) THEN R(0)  \* except: return 0
             ELSE RAdd(R(PyInt(minutes) * 60), PyFloat(seconds))

\* ------------------------------------------------------------------------
\* scoring_functions.py: get_grade
\* ------------------------------------------------------------------------

\* get_grade with "total_score > 93" for the first threshold
get_grade_strict(total_score) ==
    IF RGt(total_score, R(93)) THEN "A+"
    ELSE IF RGe(total_score, R(85)) THEN "A"
    ELSE IF RGe(total_score, R(80)) THEN "B+"
    ELSE IF RGe(total_score, R(75)) THEN "B"
    ELSE IF RGe(total_score, R(70)) THEN "C+"
    ELSE IF RGe(total_score, R(65)) THEN "C"
    ELSE "D"

get_grade(total_score) ==
    IF RGe(total_score, R(93)) THEN "A+"
    ELSE IF RGe(total_score, R(85)) THEN "A"
    ELSE IF RGe(total_score, R(80)) THEN "B+"
    ELSE IF RGe(total_score, R(75)) THEN "B"
    ELSE IF RGe(total_score, R(70)) THEN "C+"
    ELSE IF RGe(total_score, R(65)) THEN "C"
    ELSE "D"

\* ------------------------------------------------------------------------
\* Cells and columns of the play-by-play table
\* ------------------------------------------------------------------------

Cell(k, v) == [k |-> k, v |-> v]

\* pd.isna(cell)
IsNa(c) == c.k \in {"NONE", "NAN"}

\* isinstance(cell, str)
IsStr(c) == c.k \in {"TIE", "STR", "BAD"}

\* float(cell) succeeds (raises ValueError on a non-numeric string)
FloatOk(c) == c.k \in {"STR", "NUM", "NAN"}

\* float(cell), for a cell on which it succeeds
FloatOf(c) == IF c.k = "NAN" THEN NaN ELSE R(c.v)

\* the dtype of the SCOREMARGIN column is float64 (not object)
IsFloatCol(df) == \A i \in 1..Len(df) : df[i].SCOREMARGIN.k \in {"NUM", "NAN"}

Column(df, name) == [i \in 1..Len(df) |-> df[i][name]]

\* df[df['PERIOD'] == period]
PeriodRows(df, period) == SelectSeq(df, LAMBDA r : r.PERIOD = period)

\* df['PERIOD'].unique(): the periods in order of first appearance
RECURSIVE UniquePeriods(_)
UniquePeriods(df) ==
    IF df = <<>> THEN <<>>
    ELSE LET u == UniquePeriods(SubSeq(df, 1, Len(df) - 1))
             p == df[Len(df)].PERIOD
         IN  IF \E i \in 1..Len(u) : u[i] = p THEN u ELSE Append(u, p)

\* df['PERIOD'].max() of a non-empty table
MaxPeriodOf(df) == CHOOSE p \in {df[i].PERIOD : i \in 1..Len(df)} :
                      \A i \in 1..Len(df) : df[i].PERIOD <= p

\* ------------------------------------------------------------------------
\* scoring_functions.py: calculate_period_score
\* ------------------------------------------------------------------------

\* the curve of lines 35-40 with the linear branch divided by 20, not 13
PeriodCurve_div20(average_periodscore, weight) ==
    IF RLe(average_periodscore, R(7)) THEN Full(weight)
    ELSE IF RGt(average_periodscore, R(20)) THEN R(0)
    ELSE RDiv(RMul(Full(weight), RSub(R(20), average_periodscore)), R(20))

\* lines 35-40: the curve over the mean absolute margin
PeriodCurve(average_periodscore, weight) ==
    IF RLe(average_periodscore, R(7)) THEN Full(weight)
    ELSE IF RGt(average_periodscore, R(20)) THEN R(0)
    ELSE RDiv(RMul(Full(weight), RSub(R(20), average_periodscore)), R(13))

\* line 28: period_df.loc[period_df[col] == 'TIE', col] = 0
TieToZero(c) == IF c.k = "TIE" THEN Cell("NUM", 0) ELSE c

\* line 29: fillna(0).astype(float) of one cell (ValueError on "BAD")
FillFloat(c) == IF IsNa(c) THEN Cell("NUM", 0) ELSE Cell("NUM", c.v)

\* the table the caller passed, as the function leaves it (lines 28-30 work
\* in place; a ValueError at line 29 leaves only line 28 done)
period_df_after(period_df) ==
    IF period_df = <<>> THEN period_df
    ELSE IF \E i \in 1..Len(period_df) : period_df[i].SCOREMARGIN.k = "BAD"
         THEN [i \in 1..Len(period_df) |->
                 [period_df[i] EXCEPT !.SCOREMARGIN = TieToZero(@)]]
    ELSE [i \in 1..Len(period_df) |->
            [period_df[i] EXCEPT !.SCOREMARGIN = FillFloat(TieToZero(@))]]

\* calculate_period_score without the "if not filtered_df.empty else 0" of
\* line 32: the mean of no rows is NaN
calculate_period_score_no_default(period_df, weight) ==
    IF period_df = <<>> THEN <<R(0), R(0)>>
    ELSE IF \E i \in 1..Len(period_df) : period_df[i].SCOREMARGIN.k = "BAD"
         THEN <<R(0), R(0)>>
    ELSE LET df          == period_df_after(period_df)
             filtered_df == SelectSeq(df, LAMBDA r : ~r.SCORE.na)
             average_periodscore ==
                 Mean([i \in 1..Len(filtered_df) |-> R(Abs(filtered_df[i].SCOREMARGIN.v))])
         IN  <<average_periodscore, PeriodCurve(average_periodscore, weight)>>

\* returns <<average_periodscore, period_score>>
calculate_period_score(period_df, weight) ==
    IF period_df = <<>> THEN <<R(0), R(0)>>
    ELSE IF \E i \in 1..Len(period_df) : period_df[i].SCOREMARGIN.k = "BAD"
         THEN <<R(0), R(0)>>                            \* except: return 0, 0
    ELSE LET df          == period_df_after(period_df)
             filtered_df == SelectSeq(df, LAMBDA r : ~r.SCORE.na)
             PERIODSCORE == [i \in 1..Len(filtered_df) |->
                               R(Abs(filtered_df[i].SCOREMARGIN.v))]
             average_periodscore ==
                 IF filtered_df # <<>> THEN Mean(PERIODSCORE) ELSE R(0)
         IN  <<average_periodscore, PeriodCurve(average_periodscore, weight)>>

\* ------------------------------------------------------------------------
\* scoring_functions.py: calculate_lead_changes_score
\* ------------------------------------------------------------------------

\* lines 61-74: the walk over df['SCOREMARGIN']; st = [set, prev, n] is
\* (previous_margin is not None, previous_margin, lead_changes)
RECURSIVE LeadWalk(_, _)
LeadWalk(margins, st) ==
    IF margins = <<>> THEN st.n
    ELSE LET margin == Head(margins)
         IN  IF margin.k = "TIE" \/ IsNa(margin) \/ ~FloatOk(margin)
             THEN LeadWalk(Tail(margins), st)                      \* continue
             ELSE LET changed == /\ st.set
                                 /\ \/ (st.prev < 0 /\ margin.v > 0)
                                    \/ (st.prev > 0 /\ margin.v < 0)
                  IN  LeadWalk(Tail(margins),
                               [set  |-> TRUE,
                                prev |-> margin.v,
                                n    |-> IF changed THEN st.n + 1 ELSE st.n])

\* the curve of lines 77-82 with "lead_changes <= 6" for the second test
LeadCurve_le6(lead_changes, weight) ==
    IF lead_changes >= 12 THEN Full(weight)
    ELSE IF lead_changes <= 6 THEN R(0)
    ELSE RDiv(RMul(Full(weight), R(lead_changes - 5)), R(7))

\* lines 77-82: the curve over the count
LeadCurve(lead_changes, weight) ==
    IF lead_changes >= 12 THEN Full(weight)
    ELSE IF lead_changes <= 5 THEN R(0)
    ELSE RDiv(RMul(Full(weight), R(lead_changes - 5)), R(7))

\* returns <<lead_changes, lead_changes_score>>
calculate_lead_changes_score(df, weight) ==
    LET lead_changes == LeadWalk(Column(df, "SCOREMARGIN"),
                                 [set |-> FALSE, prev |-> 0, n |-> 0])
    IN  <<lead_changes, LeadCurve(lead_changes, weight)>>

\* ------------------------------------------------------------------------
\* scoring_functions.py: calculate_buzzer_beater_score
\* ------------------------------------------------------------------------

\* line 131: row['EVENTMSGTYPE'] in [1, 2, 3]
BuzzerEventTypes == {1, 2, 3}

\* lines 128-133 for one period: some row with PCTIMESECONDS <= 24 has one of
\* the event types of line 131
PeriodHasBuzzer(period_df) ==
    \E i \in 1..Len(period_df) :
        /\ RLe(convert_pctimestring_to_seconds(period_df[i].PCTIMESTRING), R(24))
        /\ period_df[i].EVENTMSGTYPE \in BuzzerEventTypes

\* lines 116-125: the margin of the last row of the period; a string is
\* converted ('TIE' and unparsable strings to 0), anything else is kept
LastMargin(period_df) ==
    LET last_margin == period_df[Len(period_df)].SCOREMARGIN
    IN  IF IsStr(last_margin)
        THEN (IF last_margin.k = "STR" THEN Cell("NUM", last_margin.v)
              ELSE Cell("NUM", 0))
        ELSE last_margin

\* lines 136-143
BuzzerCurve(last_margin, weight) ==
    IF RLe(RAbs(FloatOf(last_margin)), R(3)) THEN Full(weight)
    ELSE IF RLe(RAbs(FloatOf(last_margin)), R(5)) THEN RMul(Full(weight), Q(8, 10))
    ELSE RMul(Full(weight), Q(5, 10))

\* returns <<buzzer_beater, buzzer_beater_score>>; last_margin is the one
\* left by the last iteration of the loop over df['PERIOD'].unique();
\* abs(None) raises TypeError, which the except turns into (False, 0)
calculate_buzzer_beater_score(df, weight) ==
    LET periods       == UniquePeriods(df)
        buzzer_beater == \E j \in 1..Len(periods) :
                            PeriodHasBuzzer(PeriodRows(df, periods[j]))
    IN  IF ~buzzer_beater THEN <<FALSE, R(0)>>
        ELSE LET last_margin == LastMargin(PeriodRows(df, periods[Len(periods)]))
             IN  IF last_margin.k = "NONE" THEN <<FALSE, R(0)>>
                 ELSE <<TRUE, BuzzerCurve(last_margin, weight)>>

\* ------------------------------------------------------------------------
\* scoring_functions.py: get_fg_fg3_pct_score
\* ------------------------------------------------------------------------

\* lines 179-184, percentages as exact fractions
FgPctCurve(fg_pct, weight) ==
    IF RGe(fg_pct, Q(5, 10)) THEN Full(weight)
    ELSE IF RLe(fg_pct, Q(4, 10)) THEN R(0)
    ELSE RDiv(RMul(Full(weight), RSub(fg_pct, Q(4, 10))), Q(1, 10))

\* the curve of lines 187-192 with the full score from 0.30 on
Fg3PctCurve_from30(fg3_pct, weight) ==
    IF RGe(fg3_pct, Q(30, 100)) THEN Full(weight)
    ELSE IF RLe(fg3_pct, Q(25, 100)) THEN R(0)
    ELSE RDiv(RMul(Full(weight), RSub(fg3_pct, Q(25, 100))), Q(1, 10))

\* lines 187-192
Fg3PctCurve(fg3_pct, weight) ==
    IF RGe(fg3_pct, Q(35, 100)) THEN Full(weight)
    ELSE IF RLe(fg3_pct, Q(25, 100)) THEN R(0)
    ELSE RDiv(RMul(Full(weight), RSub(fg3_pct, Q(25, 100))), Q(1, 10))

\* recent_games is [has_GAME_ID, has_PCT, rows]; rows are
\* [GAME_ID, FG_PCT, FG3_PCT].  The guard of line 164 is outside the try:
\* a non-empty table without a GAME_ID column raises KeyError to the caller.
\* returns [raised, val], val = <<max_fg_pct_score, max_fg3_pct_score,
\* combined_score>>
get_fg_fg3_pct_score(recent_games, game_id, weight) ==
    LET zero == <<R(0), R(0), R(0)>>
    IN  IF recent_games.rows = <<>> THEN [raised |-> FALSE, val |-> zero]
        ELSE IF ~recent_games.has_GAME_ID THEN [raised |-> TRUE, val |-> zero]
        ELSE LET game_rows == SelectSeq(recent_games.rows,
                                        LAMBDA r : r.GAME_ID = game_id)
             IN  IF game_rows = <<>> THEN [raised |-> FALSE, val |-> zero]
                 ELSE IF ~recent_games.has_PCT              \* KeyError, caught
                      THEN [raised |-> FALSE, val |-> zero]
                 ELSE LET fg_pct_scores ==
                              [i \in 1..Len(game_rows) |->
                                 FgPctCurve(game_rows[i].FG_PCT, weight)]
                          fg3_pct_scores ==
                              [i \in 1..Len(game_rows) |->
                                 Fg3PctCurve(game_rows[i].FG3_PCT, weight)]
                          max_fg_pct_score  == PyMax(fg_pct_scores)
                          max_fg3_pct_score == PyMax(fg3_pct_scores)
                      IN  [raised |-> FALSE,
                           val    |-> <<max_fg_pct_score, max_fg3_pct_score,
                                        PyMax2(max_fg_pct_score, max_fg3_pct_score)>>]

\* ------------------------------------------------------------------------
\* scoring_functions.py: calculate_margin_and_star_performance_score
\* ------------------------------------------------------------------------

\* line 259: the rows of the highest period whose clock value is >= 300
MarginWindow(pbp_df) ==
    IF pbp_df = <<>> THEN <<>> ELSE
    SelectSeq(pbp_df,
              LAMBDA r : /\ r.PERIOD = MaxPeriodOf(pbp_df)
                         /\ RGe(convert_pctimestring_to_seconds(r.PCTIMESTRING),
                                R(300)))

\* the curve of lines 263-268 with the full score up to 6
MarginCurve_le6(average_margin, weight_margin) ==
    IF RGe(average_margin, R(15)) THEN R(0)
    ELSE IF RLe(average_margin, R(6)) THEN Full(weight_margin)
    ELSE RDiv(RMul(Full(weight_margin), RSub(R(15), average_margin)), R(10))

\* lines 263-268
MarginCurve(average_margin, weight_margin) ==
    IF RGe(average_margin, R(15)) THEN R(0)
    ELSE IF RLe(average_margin, R(5)) THEN Full(weight_margin)
    ELSE RDiv(RMul(Full(weight_margin), RSub(R(15), average_margin)), R(10))

\* the curve of lines 272-277 with the linear branch divided by 10, not 15
StarCurve_div10(max_points, weight_star) ==
    IF RGe(max_points, R(35)) THEN Full(weight_star)
    ELSE IF RLe(max_points, R(20)) THEN R(0)
    ELSE RDiv(RMul(Full(weight_star), RSub(max_points, R(20))), R(10))

\* lines 272-277
StarCurve(max_points, weight_star) ==
    IF RGe(max_points, R(35)) THEN Full(weight_star)
    ELSE IF RLe(max_points, R(20)) THEN R(0)
    ELSE RDiv(RMul(Full(weight_star), RSub(max_points, R(20))), R(15))

\* the scorer without the "if not filtered_pbp_df.empty else 0" of line 260:
\* the mean of an empty window is NaN
calculate_margin_and_star_performance_score_no_default(pbp_df, boxscore, weight_margin, weight_star) ==
    LET zero == <<R(0), R(0), R(0), R(0)>>
    IN  IF ~boxscore.ok THEN zero
        ELSE LET filtered_pbp_df == MarginWindow(pbp_df)
             IN  IF filtered_pbp_df # <<>> /\ ~IsFloatCol(filtered_pbp_df) THEN zero
                 ELSE LET average_margin ==
                              Mean([i \in 1..Len(filtered_pbp_df) |->
                                      RAbs(FloatOf(filtered_pbp_df[i].SCOREMARGIN))])
                          max_points ==
                              IF boxscore.has_PTS THEN SeriesMax(boxscore.PTS) ELSE R(0)
                      IN  <<average_margin,
                            MarginCurve(average_margin, weight_margin),
                            max_points,
                            StarCurve(max_points, weight_star)>>

\* boxscore is the outcome of the BoxScoreTraditionalV2 request of lines
\* 250-252: [ok, has_PTS, PTS]; ok = FALSE when the request raises.
\* abs() of an object column (strings, None) raises TypeError.
\* returns <<average_margin, margin_score, max_points, star_performance_score>>
calculate_margin_and_star_performance_score(pbp_df, boxscore, weight_margin, weight_star) ==
    LET zero == <<R(0), R(0), R(0), R(0)>>
    IN  IF ~boxscore.ok THEN zero                     \* except: return 0, 0, 0, 0
        ELSE LET filtered_pbp_df == MarginWindow(pbp_df)
             IN  IF filtered_pbp_df # <<>> /\ ~IsFloatCol(filtered_pbp_df) THEN zero
                 ELSE LET average_margin ==
                              IF filtered_pbp_df # <<>>
                              THEN Mean([i \in 1..Len(filtered_pbp_df) |->
                                          RAbs(FloatOf(filtered_pbp_df[i].SCOREMARGIN))])
                              ELSE R(0)
                          max_points ==
                              IF boxscore.has_PTS THEN SeriesMax(boxscore.PTS) ELSE R(0)
                      IN  <<average_margin,
                            MarginCurve(average_margin, weight_margin),
                            max_points,
                            StarCurve(max_points, weight_star)>>

\* line 255 placed before the box score request: the column is always added
margin_adds_seconds_first(boxscore) == TRUE

\* line 255 adds the PCTIMESECONDS column to the caller's table once the box
\* score request has returned
margin_adds_seconds(boxscore) == boxscore.ok

\* ------------------------------------------------------------------------
\* data_fetcher.py
\* ------------------------------------------------------------------------

\* get_play_by_play_data: the PlayByPlay request either returns the table or
\* raises, and then the function returns an empty DataFrame
get_play_by_play_data(fetch) == IF fetch.ok THEN fetch.rows ELSE <<>>

\* lines 93-96: replace('TIE', '0') and pd.to_numeric(errors='coerce') of one
\* SCOREMARGIN cell
ToNumeric(c) ==
    IF c.k = "TIE" THEN Cell("NUM", 0)
    ELSE IF c.k \in {"STR", "NUM"} THEN Cell("NUM", c.v)
    ELSE Cell("NAN", 0)

\* process_play_by_play_data works on the caller's table: the SCOREMARGIN
\* column as the call leaves it
process_play_by_play_data(pbp_df) ==
    [i \in 1..Len(pbp_df) |-> [pbp_df[i] EXCEPT !.SCOREMARGIN = ToNumeric(@)]]

\* line 99: the SCORE_AWAY and SCORE_HOME columns are added when the split of
\* SCORE yields two columns, which takes a row with a recorded score
process_adds_columns(pbp_df) == \E i \in 1..Len(pbp_df) : ~pbp_df[i].SCORE.na

\* ------------------------------------------------------------------------
\* game_analyzer.py: analyze_game
\* ------------------------------------------------------------------------

\* lines 34-48: the record returned when there is no play-by-play
EmptyResult(game_id) ==
    [GameID          |-> game_id,
     PeriodScores    |-> R(0),
     ExtraPeriods    |-> R(0),
     LeadChanges     |-> R(0),
     BuzzerBeater    |-> R(0),
     FG3_PCT         |-> R(0),
     StarPerformance |-> R(0),
     Margin          |-> R(0),
     TotalScore      |-> R(0),
     Grade           |-> "N/A",
     AverageMargin   |-> R(0)]

\* lines 54-59: the loop over ADJUSTED_PERIOD_WEIGHTS; each period is scored
\* on a copy of its rows, an empty period adds nothing
RECURSIVE PeriodScoreTotal(_, _)
PeriodScoreTotal(pbp_df, period) ==
    IF period = 0 THEN R(0)
    ELSE LET period_df == PeriodRows(pbp_df, period)
             rest      == PeriodScoreTotal(pbp_df, period - 1)
         IN  IF period_df # <<>>
             THEN RAdd(rest, calculate_period_score(
                                 period_df, ADJUSTED_PERIOD_WEIGHTS[period])[2])
             ELSE rest

\* lines 62-65 with the score multiplied by the number of periods above 4
ExtraPeriodsScore_per_period(pbp_df) ==
    IF MaxPeriodOf(pbp_df) > 4
    THEN RMul(Full(WEIGHT_CONFIG.extra_period_weight), R(MaxPeriodOf(pbp_df) - 4))
    ELSE R(0)

\* lines 62-65
ExtraPeriodsScore(pbp_df) ==
    IF MaxPeriodOf(pbp_df) > 4 THEN Full(WEIGHT_CONFIG.extra_period_weight) ELSE R(0)

\* analyze_game(game_id, game_date, matchup) under the outcomes of its three
\* upstream requests: fetch (play-by-play), recent_games (get_recent_games)
\* and boxscore.  Returns [raised, rec]; the KeyError of get_fg_fg3_pct_score
\* is not caught at line 88.
analyze_game(game_id, fetch, recent_games, boxscore) ==
    LET fetched == get_play_by_play_data(fetch)
    IN  IF fetched = <<>> THEN [raised |-> FALSE, rec |-> EmptyResult(game_id)]
        ELSE LET pbp_df             == process_play_by_play_data(fetched)
                 period_score_total == PeriodScoreTotal(pbp_df, 4)
                 extra_periods_score == ExtraPeriodsScore(pbp_df)
                 lead   == calculate_lead_changes_score(
                               pbp_df, WEIGHT_CONFIG.lead_change_weight)
                 buzzer == calculate_buzzer_beater_score(
                               pbp_df, WEIGHT_CONFIG.buzzer_beater_weight)
                 fg     == get_fg_fg3_pct_score(
                               recent_games, game_id, WEIGHT_CONFIG.fg3_pct_weight)
                 ms     == calculate_margin_and_star_performance_score(
                               pbp_df, boxscore, WEIGHT_CONFIG.margin_weight,
                               WEIGHT_CONFIG.star_performance_weight)
                 total_score ==
                     RSum(<<period_score_total, extra_periods_score, lead[2],
                            buzzer[2], fg.val[3], ms[2], ms[4]>>)
             IN  IF fg.raised THEN [raised |-> TRUE, rec |-> EmptyResult(game_id)]
                 ELSE [raised |-> FALSE,
                       rec |-> [GameID          |-> game_id,
                                PeriodScores    |-> Round1(period_score_total),
                                ExtraPeriods    |-> Round1(extra_periods_score),
                                LeadChanges     |-> Round1(lead[2]),
                                BuzzerBeater    |-> Round1(buzzer[2]),
                                FG3_PCT         |-> Round1(fg.val[3]),
                                StarPerformance |-> Round1(ms[4]),
                                Margin          |-> Round1(ms[2]),
                                TotalScore      |-> Round1(total_score),
                                Grade           |-> get_grade(total_score),
                                AverageMargin   |-> Round1(ms[1])]]

\* the caller-visible table after analyze_game: analyze_game holds the only
\* reference to the fetched table, which lines 51 and 255 change in place
analyze_game_table(fetch, boxscore) ==
    LET fetched == get_play_by_play_data(fetch)
    IN  IF fetched = <<>> THEN fetched ELSE process_play_by_play_data(fetched)

\* ------------------------------------------------------------------------
\* State
\* ------------------------------------------------------------------------

VARIABLES
    pc,            \* position of the caller: "call", "processed", "done";
                   \* of create_dashboard: "start", "loop", "done", "raised"
    fetch,         \* outcome of the PlayByPlay request: [ok, rows], the table
                   \* as the stats provider returns it
    pbp_df,        \* the play-by-play table object the caller holds
    pbp_cols,      \* the columns added to pbp_df since it was fetched
    recent_games,  \* outcome of get_recent_games() inside the call
    boxscore,      \* outcome of the BoxScoreTraditionalV2 request
    weight,        \* the weight argument of a direct scorer call
    total_score,   \* the argument of a direct get_grade call
    out,           \* [fn, raised, val]: what the last call returned
    listing,       \* create_dashboard: outcome of its get_recent_games()
    games,         \* create_dashboard: GAME_ID of unique_recent_games
    results,       \* create_dashboard: the results list
    nopbp,         \* create_dashboard: indices of the games iterated for
                   \* which no play-by-play was obtainable
    last_data_fetch_time,  \* GameRanking: the global, <<>> for None, <<t>>
    data_cache,    \* GameRanking: the files data_cache.csv and data_cache.json
    now,           \* GameRanking: datetime.now(), in seconds
    depth,         \* GameRanking: process_data frames on the call stack
    retry,         \* GameRanking: the retry index of the play-by-play loop
    game_log       \* GameRanking: what happened to every game of the loop

\* the state of GameRanking.py
ranking_vars == <<last_data_fetch_time, data_cache, now, depth, retry, game_log>>

vars == <<pc, fetch, pbp_df, pbp_cols, recent_games, boxscore, weight,
          total_score, out, listing, games, results, nopbp, ranking_vars>>

NoOut == [fn |-> "none", raised |-> FALSE, val |-> <<>>, arg |-> <<>>]

Returned(fn, val, arg) == [fn |-> fn, raised |-> FALSE, val |-> val, arg |-> arg]

\* a file that does not exist, and the cache with neither file
NoFile == [exists |-> FALSE, rows |-> <<>>]

NoCache == [csv |-> NoFile, json |-> <<>>]

\* GameRanking.py is not running
RankingIdle ==
    /\ last_data_fetch_time = <<>>
    /\ data_cache = NoCache
    /\ now = 0
    /\ depth = 0
    /\ retry = 0
    /\ game_log = <<>>

\* ------------------------------------------------------------------------
\* Input values
\* ------------------------------------------------------------------------

Str(s)  == [na |-> FALSE, s |-> s]
NoneStr == [na |-> TRUE, s |-> <<>>]

T_0_24 == Str(<<"0", ":", "2", "4">>)
T_0_25 == Str(<<"0", ":", "2", "5">>)
T_2_00 == Str(<<"2", ":", "0", "0">>)
T_5_00 == Str(<<"5", ":", "0", "0">>)
T_8_00 == Str(<<"8", ":", "0", "0">>)

NONE     == Cell("NONE", 0)
TIE      == Cell("TIE", 0)
BAD      == Cell("BAD", 0)
STR(v)   == Cell("STR", v)

Ev(p, t, m, c, s) ==
    [PERIOD |-> p, EVENTMSGTYPE |-> t, SCOREMARGIN |-> m, PCTIMESTRING |-> c,
     SCORE |-> [na |-> ~s]]

\* a row as the provider sends it: a made shot (type 1) carries the score and
\* the margin, any other event (here a missed shot, type 2) carries neither
Play(p, c, m) == Ev(p, IF m.k = "NONE" THEN 2 ELSE 1, m, c, m.k # "NONE")

\* the provider's tables are chronological: periods never decrease
Chronological(df) == \A i \in 1..(Len(df) - 1) : df[i].PERIOD <= df[i + 1].PERIOD

Tables(D, n) == {t \in UNION {[1..k -> D] : k \in 0..n} : Chronological(t)}

Fetched(t) == [ok |-> TRUE, rows |-> t]
FetchFailed == [ok |-> FALSE, rows |-> <<>>]

TeamRow(g, fg, fg3) == [GAME_ID |-> g, FG_PCT |-> fg, FG3_PCT |-> fg3]

\* get_recent_games() returned pd.DataFrame() (its except branch)
RecentEmpty == [has_GAME_ID |-> FALSE, has_PCT |-> FALSE, rows |-> <<>>]

RecentRows(rows) == [has_GAME_ID |-> TRUE, has_PCT |-> TRUE, rows |-> rows]

\* get_recent_games() returned its dummy table, which has no FG_PCT column
RecentDummy(g) == [has_GAME_ID |-> TRUE, has_PCT |-> FALSE,
                   rows |-> <<TeamRow(g, NaN, NaN)>>]

\* create_dashboard has not asked for the listing
NoListing == [has_MATCHUP |-> FALSE, rows |-> <<>>]

BoxFailed == [ok |-> FALSE, has_PTS |-> FALSE, PTS |-> <<>>]

Box(pts) == [ok |-> TRUE, has_PTS |-> TRUE, PTS |-> pts]

\* ------------------------------------------------------------------------
\* analyze_game called for one game
\* ------------------------------------------------------------------------

MaxGameLen == 2

GameMargins == {NONE, TIE, STR(10), STR(-25)}

GameEvents == {Play(p, c, m) : p \in {1, 4, 5}, c \in {T_5_00, T_0_24}, m \in GameMargins}

GameFetches == {FetchFailed} \cup {Fetched(t) : t \in Tables(GameEvents, MaxGameLen)}

GameRecents ==
    {RecentEmpty,
     RecentDummy(1),
     RecentRows(<<TeamRow(1, Q(45, 100), Q(30, 100)), TeamRow(1, Q(38, 100), Q(20, 100))>>),
     RecentRows(<<TeamRow(1, Q(52, 100), Q(20, 100)), TeamRow(1, NaN, Q(40, 100))>>)}

GameBoxes == {BoxFailed, Box(<<>>), Box(<<R(27), NaN>>), Box(<<R(40), R(18)>>)}

InitGame ==
    /\ pc = "call"
    /\ fetch \in GameFetches
    /\ recent_games \in GameRecents
    /\ boxscore \in GameBoxes
    /\ pbp_df = <<>>
    /\ pbp_cols = {}
    /\ weight = R(0)
    /\ total_score = R(0)
    /\ out = NoOut
    /\ listing = NoListing
    /\ games = <<>>
    /\ results = <<>>
    /\ nopbp = {}
    /\ RankingIdle

\* the columns analyze_game leaves added to the fetched table
analyze_game_cols(fetch_, recent_games_, boxscore_) ==
    IF get_play_by_play_data(fetch_) = <<>> THEN {}
    ELSE (IF process_adds_columns(fetch_.rows) THEN {"SCORE_AWAY", "SCORE_HOME"} ELSE {})
         \cup (IF /\ ~get_fg_fg3_pct_score(recent_games_, 1, R(0)).raised
                  /\ margin_adds_seconds(boxscore_)
               THEN {"PCTIMESECONDS"} ELSE {})

\* analyze_game(1, game_date, matchup)
AnalyzeGame ==
    /\ pc = "call"
    /\ LET r == analyze_game(1, fetch, recent_games, boxscore)
       IN  out' = [fn |-> "analyze_game", raised |-> r.raised, val |-> r.rec,
                   arg |-> <<>>]
    /\ pbp_df' = analyze_game_table(fetch, boxscore)
    /\ pbp_cols' = analyze_game_cols(fetch, recent_games, boxscore)
    /\ pc' = "done"
    /\ UNCHANGED <<fetch, recent_games, boxscore, weight, total_score, listing,
                   games, results, nopbp, ranking_vars>>

NextGame == AnalyzeGame

SpecGame == InitGame /\ [][NextGame]_vars

\* ------------------------------------------------------------------------
\* dashboard.py: create_dashboard, and data_fetcher.py: get_recent_games
\* ------------------------------------------------------------------------

\* the max_games parameter of get_recent_games
max_games == 20

\* a row of the listing: the game, whether MATCHUP contains '@', and whether
\* GAME_DATE is a str (the dummy rows) or a Timestamp (after pd.to_datetime)
GameRow(g, away, date_is_str) ==
    [GAME_ID |-> g, away |-> away, date_is_str |-> date_is_str]

\* get_recent_games() under the outcome api = [ok, rows] of the
\* LeagueGameFinder request: pd.DataFrame() when it raises, the dummy table
\* (built after the pd.to_datetime conversion, its dates are strings) when it
\* returns no row, the first max_games * 2 rows otherwise
get_recent_games(api) ==
    IF ~api.ok THEN [has_MATCHUP |-> FALSE, rows |-> <<>>]
    ELSE IF api.rows = <<>>
         THEN [has_MATCHUP |-> TRUE,
               rows |-> [i \in 1..max_games |-> GameRow(i, FALSE, TRUE)]]
    ELSE [has_MATCHUP |-> TRUE,
          rows |-> SubSeq(api.rows, 1, IF Len(api.rows) < max_games * 2
                                       THEN Len(api.rows) ELSE max_games * 2)]

\* drop_duplicates(subset=['GAME_ID']): the first row of every game
RECURSIVE DropDuplicates(_)
DropDuplicates(rows) ==
    IF rows = <<>> THEN <<>>
    ELSE LET u == DropDuplicates(SubSeq(rows, 1, Len(rows) - 1))
             r == rows[Len(rows)]
         IN  IF \E i \in 1..Len(u) : u[i].GAME_ID = r.GAME_ID THEN u ELSE Append(u, r)

\* lines 36-41
unique_recent_games(recent) ==
    LET filtered == DropDuplicates(SelectSeq(recent.rows, LAMBDA r : r.away))
    IN  IF filtered = <<>> THEN DropDuplicates(recent.rows) ELSE filtered

\* lines 55-70, the dummy row
NoDataRow == [EmptyResult(0) EXCEPT !.GameID = 0]

MaxListing == 3

DashGameIds == {1, 2}

ApiListings ==
    {[ok |-> FALSE, rows |-> <<>>]}
    \cup {[ok |-> TRUE, rows |-> t] :
            t \in UNION {[1..k -> {GameRow(g, a, FALSE) : g \in DashGameIds, a \in BOOLEAN}] :
                           k \in 0..MaxListing}}

DashFetches ==
    {FetchFailed, Fetched(<<>>), Fetched(<<Play(5, T_5_00, NONE)>>),
     Fetched(<<Play(1, T_5_00, STR(10))>>)}

DashBoxes == {BoxFailed, Box(<<R(40)>>)}

InitDash ==
    /\ pc = "start"
    /\ listing \in {get_recent_games(a) : a \in ApiListings}
    /\ fetch = FetchFailed
    /\ recent_games = RecentEmpty
    /\ boxscore = BoxFailed
    /\ pbp_df = <<>>
    /\ pbp_cols = {}
    /\ weight = R(0)
    /\ total_score = R(0)
    /\ out = NoOut
    /\ games = <<>>
    /\ results = <<>>
    /\ nopbp = {}
    /\ RankingIdle

\* lines 33-41: recent_games['MATCHUP'] raises KeyError on pd.DataFrame()
DashStart ==
    /\ pc = "start"
    /\ IF ~listing.has_MATCHUP
       THEN pc' = "raised" /\ games' = games
       ELSE pc' = "loop" /\ games' = unique_recent_games(listing)
    /\ UNCHANGED <<fetch, pbp_df, pbp_cols, recent_games, boxscore, weight,
                   total_score, out, listing, results, nopbp, ranking_vars>>

\* lines 45-52, one iteration: game['GAME_DATE'].strftime raises
\* AttributeError on a str; otherwise analyze_game runs under the outcomes
\* of its upstream requests and its record is appended
DashIterate ==
    /\ pc = "loop"
    /\ Len(results) < Len(games)
    /\ LET game == games[Len(results) + 1]
       IN  IF game.date_is_str
           THEN /\ pc' = "raised"
                /\ UNCHANGED <<fetch, pbp_df, pbp_cols, recent_games, boxscore, out,
                               results, nopbp>>
           ELSE \E f \in DashFetches, b \in DashBoxes :
                  LET r == analyze_game(game.GAME_ID, f, RecentEmpty, b)
                  IN  /\ fetch' = f
                      /\ boxscore' = b
                      /\ recent_games' = RecentEmpty
                      /\ pbp_df' = analyze_game_table(f, b)
                      /\ pbp_cols' = analyze_game_cols(f, RecentEmpty, b)
                      /\ out' = [fn |-> "analyze_game", raised |-> r.raised,
                                  val |-> r.rec, arg |-> <<>>]
                      /\ pc' = IF r.raised THEN "raised" ELSE "loop"
                      /\ results' = IF r.raised THEN results ELSE Append(results, r.rec)
                      /\ nopbp' = IF get_play_by_play_data(f) = <<>>
                                  THEN nopbp \cup {Len(results) + 1} ELSE nopbp
    /\ UNCHANGED <<weight, total_score, listing, games, ranking_vars>>

\* lines 54-70: after the loop, the dummy row when nothing was analysed
DashFinish ==
    /\ pc = "loop"
    /\ Len(results) = Len(games)
    /\ results' = IF results = <<>> THEN <<NoDataRow>> ELSE results
    /\ pc' = "done"
    /\ UNCHANGED <<fetch, pbp_df, pbp_cols, recent_games, boxscore, weight,
                   total_score, out, listing, games, nopbp, ranking_vars>>

NextDash == DashStart \/ DashIterate \/ DashFinish

SpecDash == InitDash /\ [][NextDash]_vars

\* ------------------------------------------------------------------------
\* The scorers called on a fetched table, before or after
\* process_play_by_play_data has been run on it (analyze_game runs it first)
\* ------------------------------------------------------------------------

InitCall(tables, weights, recents, boxes, scores) ==
    /\ pc = "call"
    /\ fetch \in {Fetched(t) : t \in tables}
    /\ pbp_df = fetch.rows
    /\ pbp_cols = {}
    /\ weight \in weights
    /\ recent_games \in recents
    /\ boxscore \in boxes
    /\ total_score \in scores
    /\ out = NoOut
    /\ listing = NoListing
    /\ games = <<>>
    /\ results = <<>>
    /\ nopbp = {}
    /\ RankingIdle

\* process_play_by_play_data(pbp_df); an empty table is returned untouched
Process ==
    /\ pc = "call"
    /\ pbp_df # <<>>
    /\ pbp_df' = process_play_by_play_data(pbp_df)
    /\ pbp_cols' = pbp_cols \cup (IF process_adds_columns(pbp_df)
                                  THEN {"SCORE_AWAY", "SCORE_HOME"} ELSE {})
    /\ pc' = "processed"
    /\ UNCHANGED <<fetch, recent_games, boxscore, weight, total_score, out, listing,
                   games, results, nopbp, ranking_vars>>

Callable == pc \in {"call", "processed"}

Frame == UNCHANGED <<fetch, recent_games, boxscore, weight, total_score, listing,
                     games, results, nopbp, ranking_vars>>

\* calculate_period_score(pbp_df, 'SCOREMARGIN', weight): the table is changed
\* in place; PERIODSCORE is added unless line 29 raised
CallPeriod ==
    /\ Callable
    /\ out' = Returned("calculate_period_score",
                       calculate_period_score(pbp_df, weight), pbp_df)
    /\ pbp_df' = period_df_after(pbp_df)
    /\ pbp_cols' = pbp_cols \cup
                     (IF pbp_df = <<>> \/ \E i \in 1..Len(pbp_df) : pbp_df[i].SCOREMARGIN.k = "BAD"
                      THEN {} ELSE {"PERIODSCORE"})
    /\ pc' = "done"
    /\ Frame

\* calculate_lead_changes_score(pbp_df, weight)
CallLead ==
    /\ Callable
    /\ out' = Returned("calculate_lead_changes_score",
                       calculate_lead_changes_score(pbp_df, weight), pbp_df)
    /\ pc' = "done"
    /\ UNCHANGED <<pbp_df, pbp_cols>>
    /\ Frame

\* calculate_buzzer_beater_score(pbp_df, weight): works on copies
CallBuzzer ==
    /\ Callable
    /\ out' = Returned("calculate_buzzer_beater_score",
                       calculate_buzzer_beater_score(pbp_df, weight), pbp_df)
    /\ pc' = "done"
    /\ UNCHANGED <<pbp_df, pbp_cols>>
    /\ Frame

\* calculate_margin_and_star_performance_score(pbp_df, game_id, w_margin, w_star)
CallMargin ==
    /\ Callable
    /\ out' = Returned("calculate_margin_and_star_performance_score",
                       calculate_margin_and_star_performance_score(
                           pbp_df, boxscore, WEIGHT_CONFIG.margin_weight,
                           WEIGHT_CONFIG.star_performance_weight), pbp_df)
    /\ pbp_cols' = pbp_cols \cup (IF margin_adds_seconds(boxscore)
                                  THEN {"PCTIMESECONDS"} ELSE {})
    /\ pc' = "done"
    /\ UNCHANGED pbp_df
    /\ Frame

\* get_fg_fg3_pct_score(recent_games, 1, weight)
CallShooting ==
    /\ Callable
    /\ LET r == get_fg_fg3_pct_score(recent_games, 1, weight)
       IN  out' = [fn |-> "get_fg_fg3_pct_score", raised |-> r.raised,
                   val |-> r.val, arg |-> <<>>]
    /\ pc' = "done"
    /\ UNCHANGED <<pbp_df, pbp_cols>>
    /\ Frame

\* get_grade(total_score)
CallGrade ==
    /\ Callable
    /\ out' = Returned("get_grade", get_grade(total_score), <<>>)
    /\ pc' = "done"
    /\ UNCHANGED <<pbp_df, pbp_cols>>
    /\ Frame

\* --- calculate_lead_changes_score ---

MaxLeadLen == 4

LeadEvents == {Play(1, T_5_00, m) : m \in {NONE, TIE, BAD, STR(5), STR(-3), STR(2), STR(-1)}}

InitLead == InitCall(Tables(LeadEvents, MaxLeadLen), {WEIGHT_CONFIG.lead_change_weight},
                     {RecentEmpty}, {BoxFailed}, {R(0)})

NextLead == Process \/ CallLead

SpecLead == InitLead /\ [][NextLead]_vars

\* --- calculate_buzzer_beater_score ---

MaxBuzzerLen == 2

\* made shots (1) and free throws (3) carry a margin; missed shots (2) and
\* rebounds (4) carry none
BuzzerEvents ==
    {Ev(p, t, m, c, TRUE) : p \in {1, 2}, t \in {1, 3}, c \in {T_0_24, T_0_25},
                            m \in {TIE, STR(2), STR(-4), STR(9)}}
    \cup {Ev(p, t, NONE, c, FALSE) : p \in {1, 2}, t \in {2, 4}, c \in {T_0_24, T_0_25}}

InitBuzzer == InitCall(Tables(BuzzerEvents, MaxBuzzerLen),
                       {WEIGHT_CONFIG.buzzer_beater_weight, Q(5, 100)},
                       {RecentEmpty}, {BoxFailed}, {R(0)})

NextBuzzer == Process \/ CallBuzzer

SpecBuzzer == InitBuzzer /\ [][NextBuzzer]_vars

\* --- calculate_margin_and_star_performance_score ---

MaxMarginLen == 2

MarginEvents == {Play(p, c, m) : p \in {4, 5}, c \in {T_2_00, T_5_00, T_8_00},
                                 m \in {NONE, TIE, STR(2), STR(-10), STR(20)}}

InitMargin == InitCall(Tables(MarginEvents, MaxMarginLen), {R(0)}, {RecentEmpty},
                       {BoxFailed, Box(<<R(27), NaN>>)}, {R(0)})

NextMargin == Process \/ CallMargin

SpecMargin == InitMargin /\ [][NextMargin]_vars

\* --- calculate_period_score ---

MaxPeriodLen == 3

PeriodEvents == {Ev(1, 1, m, T_5_00, s) : m \in {NONE, TIE, BAD, STR(-10), STR(25)},
                                          s \in BOOLEAN}

InitPeriod == InitCall(Tables(PeriodEvents, MaxPeriodLen),
                       {ADJUSTED_PERIOD_WEIGHTS[k] : k \in 1..4},
                       {RecentEmpty}, {BoxFailed}, {R(0)})

NextPeriod == Process \/ CallPeriod

SpecPeriod == InitPeriod /\ [][NextPeriod]_vars

\* --- get_fg_fg3_pct_score ---

MaxTeamRows == 2

TeamRows == {TeamRow(g, fg, fg3) : g \in {1, 2},
                                   fg \in {NaN, Q(38, 100), Q(45, 100), Q(50, 100)},
                                   fg3 \in {Q(20, 100), Q(30, 100), Q(35, 100)}}

ShootingTables ==
    {[has_GAME_ID |-> g, has_PCT |-> p, rows |-> t] :
        g \in BOOLEAN, p \in BOOLEAN,
        t \in UNION {[1..k -> TeamRows] : k \in 0..MaxTeamRows}}

InitShooting == InitCall({<<>>}, {WEIGHT_CONFIG.fg3_pct_weight}, ShootingTables,
                         {BoxFailed}, {R(0)})

NextShooting == CallShooting

SpecShooting == InitShooting /\ [][NextShooting]_vars

\* --- get_grade ---

MaxScoreTenths == 1000

GradeInputs == {Q(k, 10) : k \in 0..MaxScoreTenths} \cup {NaN}

InitGrade == InitCall({<<>>}, {R(0)}, {RecentEmpty}, {BoxFailed}, GradeInputs)

NextGrade == CallGrade

SpecGrade == InitGrade /\ [][NextGrade]_vars

\* --- convert_pctimestring_to_seconds ---

MaxTimeLen == 4

\* the characters of the clock strings: digits, the separator, a sign, a
\* decimal point and a letter
TimeChars == {"0", "2", "4", "5", ":", "-", ".", "x"}

TimeCells == {NoneStr} \cup {Str(s) : s \in UNION {[1..k -> TimeChars] : k \in 0..MaxTimeLen}}

InitParser == InitCall({<<Ev(1, 1, NONE, c, FALSE)>> : c \in TimeCells}, {R(0)},
                       {RecentEmpty}, {BoxFailed}, {R(0)})

\* df['PCTIMESTRING'].apply(convert_pctimestring_to_seconds) on the row
CallParser ==
    /\ Callable
    /\ out' = Returned("convert_pctimestring_to_seconds",
                       convert_pctimestring_to_seconds(pbp_df[1].PCTIMESTRING),
                       pbp_df[1].PCTIMESTRING)
    /\ pc' = "done"
    /\ UNCHANGED <<pbp_df, pbp_cols>>
    /\ Frame

NextParser == CallParser

SpecParser == InitParser /\ [][NextParser]_vars

\* --- calculate_lead_changes_score on games long enough for the whole curve ---

MaxCurveLen == 13

CurveEvents == {Play(1, T_5_00, m) : m \in {STR(5), STR(-3)}}

InitLeadCurve == InitCall(Tables(CurveEvents, MaxCurveLen),
                          {WEIGHT_CONFIG.lead_change_weight},
                          {RecentEmpty}, {BoxFailed}, {R(0)})

NextLeadCurve == Process \/ CallLead

SpecLeadCurve == InitLeadCurve /\ [][NextLeadCurve]_vars

\* --- calculate_margin_and_star_performance_score over box scores ---

MaxPlayers == 2

StarPoints == {NaN, R(18), R(20), R(27), R(35), R(40)}

\* the box score request fails, returns a table without a PTS column, or a
\* table with up to MaxPlayers player rows
StarBoxes ==
    {BoxFailed, [ok |-> TRUE, has_PTS |-> FALSE, PTS |-> <<>>]}
        \cup {Box(p) : p \in UNION {[1..k -> StarPoints] : k \in 0..MaxPlayers}}

InitStar == InitCall(Tables(MarginEvents, 1), {R(0)}, {RecentEmpty}, StarBoxes, {R(0)})

NextStar == Process \/ CallMargin

SpecStar == InitStar /\ [][NextStar]_vars

\* --- analyze_game on close games with totals next to a grade threshold ---

MaxCloseLen == 4

\* one scoring play per period, tied or two points apart
CloseEvents == {Play(p, T_5_00, m) : p \in 1..4, m \in {TIE, STR(2)}}

CloseFetches == {Fetched(t) : t \in Tables(CloseEvents, MaxCloseLen)}

CloseRecents ==
    {RecentRows(<<TeamRow(1, fg, Q(20, 100))>>) : fg \in {Q(30, 100), Q(406, 1000), Q(45, 100)}}

CloseBoxes == {Box(<<R(p)>>) : p \in {23, 27, 35}}

InitClose ==
    /\ pc = "call"
    /\ fetch \in CloseFetches
    /\ recent_games \in CloseRecents
    /\ boxscore \in CloseBoxes
    /\ pbp_df = <<>>
    /\ pbp_cols = {}
    /\ weight = R(0)
    /\ total_score = R(0)
    /\ out = NoOut
    /\ listing = NoListing
    /\ games = <<>>
    /\ results = <<>>
    /\ nopbp = {}
    /\ RankingIdle

NextClose == AnalyzeGame

SpecClose == InitClose /\ [][NextClose]_vars

\* --- analyze_game on games with overtime periods ---

MaxOvertimeLen == 3

OvertimeEvents == {Play(p, T_5_00, m) : p \in {3, 4, 5, 6}, m \in {NONE, STR(10), STR(-25)}}

OvertimeFetches == {Fetched(t) : t \in Tables(OvertimeEvents, MaxOvertimeLen)}

InitOvertime ==
    /\ pc = "call"
    /\ fetch \in OvertimeFetches
    /\ recent_games = RecentEmpty
    /\ boxscore \in {BoxFailed, Box(<<R(27)>>)}
    /\ pbp_df = <<>>
    /\ pbp_cols = {}
    /\ weight = R(0)
    /\ total_score = R(0)
    /\ out = NoOut
    /\ listing = NoListing
    /\ games = <<>>
    /\ results = <<>>
    /\ nopbp = {}
    /\ RankingIdle

NextOvertime == AnalyzeGame

SpecOvertime == InitOvertime /\ [][NextOvertime]_vars

\* ------------------------------------------------------------------------
\* GameRanking.py: process_data, its retries and its cache
\* ------------------------------------------------------------------------

\* line 19, seconds
DATA_FETCH_INTERVAL == 300

\* lines 117-126: the keys the dict holds
weight_config ==
    [period_weights |-> <<Q(33, 100), Q(33, 100), Q(34, 100), R(0)>>,
     extra_period_weight |-> Q(5, 100),
     lead_change_weight |-> Q(5, 100),
     buzzer_beater_weight |-> R(0),
     fg3_pct_weight |-> Q(5, 100),
     star_performance_weight |-> Q(10, 100),
     margin_weight |-> Q(25, 100),
     max_total_score |-> Q(50, 100)]

\* weight_config[key] raises KeyError for a key the dict does not hold
KeyError(key) == key \notin DOMAIN weight_config

\* line 521
max_retries == 3

CsvFile(rows) == [exists |-> TRUE, rows |-> rows]

\* the outcomes of the two os.remove calls of clear_cache
ClearOutcomes == {"removed", "csv_raises", "json_raises"}

\* lines 22-31: both files are removed inside one try; when the removal of
\* data_cache.csv raises, data_cache.json is not reached.  The global
\* last_data_fetch_time is not touched.
clear_cache(cache, fs) ==
    IF fs = "csv_raises" /\ cache.csv.exists THEN cache
    ELSE IF fs = "json_raises" /\ cache.json # <<>>
         THEN [csv |-> NoFile, json |-> cache.json]
    ELSE NoCache

\* lines 37-74 at time t: [should, time], time the value the global
\* last_data_fetch_time has afterwards
should_fetch_data(ldft, cache, t) ==
    IF ldft = <<>>
    THEN IF cache.json # <<>>
         THEN [should |-> cache.json[1] > t \/ t - cache.json[1] >= DATA_FETCH_INTERVAL,
               time |-> cache.json]
         ELSE [should |-> TRUE, time |-> <<>>]
    ELSE [should |-> t - ldft[1] >= DATA_FETCH_INTERVAL, time |-> ldft]

\* lines 77-101 at time t: the global is set before the files are written
\* (line 86); wrote = FALSE is df.to_csv raising
save_data_to_cache(df, cache, t, wrote) ==
    [ok |-> wrote, time |-> <<t>>,
     cache |-> IF wrote THEN [csv |-> CsvFile(df), json |-> <<t>>] ELSE cache]

\* lines 104-115: <<>> is None, <<df>> the table read
load_data_from_cache(cache) == IF cache.csv.exists THEN <<cache.csv.rows>> ELSE <<>>

\* a row of the results table; the numeric sub-scores are not modelled, only
\* whether a retried sub-scorer fell back to its default 0
ResultRow(g, date, teams, fg3, margin, grade) ==
    [Game |-> g, GameDate |-> date, Teams |-> teams, FG3_PCT |-> fg3,
     Margin |-> margin, StarPerformance |-> margin, Grade |-> grade]

\* lines 656-671: three rows
create_dummy_data ==
    [d \in 1..3 |-> ResultRow(0, d, "No Data", "0", "0", "N/A")]

\* lines 543-573 and 597-610: the row of game g when the fg3 scorer failed
\* fg3_fails times and the margin/star scorer margin_fails times in a row
ScoredRow(g, fg3_fails, margin_fails) ==
    ResultRow(g, g, "matchup",
              IF fg3_fails = max_retries THEN "0" ELSE "scored",
              IF margin_fails = max_retries THEN "0" ELSE "scored",
              "grade")

\* lines 618-627: the table made of the results list (the sort by
\* 'Total Score' is on a column this model does not carry)
results_df(res) == IF res = <<>> THEN create_dummy_data ELSE res

\* line 508
games_to_process(n) == IF n < 10 THEN n ELSE 10

\* lines 539-541 and 577: the keys read while a game is scored
ScoringRaises(df) ==
    \/ KeyError("period_score_weight")
    \/ KeyError("lead_changes_weight")
    \/ KeyError("buzzer_beater_weight")
    \/ KeyError("fg3_pct_weight")
    \/ KeyError("margin_weight")
    \/ KeyError("star_performance_weight")
    \/ (\E r \in 1..Len(df) : df[r].PERIOD > 4) /\ KeyError("extra_periods_weight")

\* what the loop did with one game: the PlayByPlay requests made, their
\* final outcome, the failures the sub-scorers meet, and whether a row was
\* appended
LogEntry(tries, pbp, fg3_fails, margin_fails, scored) ==
    [tries |-> tries, pbp |-> pbp, fg3_fails |-> fg3_fails,
     margin_fails |-> margin_fails, scored |-> scored]

MaxRankingGames == 2

\* the interpreter's recursion limit, counted in process_data frames
RecursionLimit == 3

ClockStep == 150

MaxClock == 300

RankingFetches == {FetchFailed, Fetched(<<>>), Fetched(<<Play(1, T_5_00, STR(10))>>)}

\* the failures in a row a sub-scorer meets: none, or all max_retries
SubScorerFailures == {0, max_retries}

\* files an earlier run of the program left behind: the dummy table it
\* saved, or a table of four games, with the time it was saved
LeftoverCaches ==
    {NoCache}
    \cup {[csv |-> c, json |-> <<t>>] :
            c \in {NoFile, CsvFile(create_dummy_data),
                   CsvFile([g \in 1..4 |-> ScoredRow(g, 0, 0)])},
            t \in {0 - 450, 0 - 150, 150}}

\* lines 17-34 and 674: the module is imported; clear_cache() has run and
\* process_data() is called
InitRanking ==
    /\ pc = "entry"
    /\ last_data_fetch_time = <<>>
    /\ data_cache \in {clear_cache(c, fs) : c \in LeftoverCaches, fs \in ClearOutcomes}
    /\ now = 0
    /\ depth = 1
    /\ retry = 0
    /\ game_log = <<>>
    /\ fetch = FetchFailed
    /\ pbp_df = <<>>
    /\ pbp_cols = {}
    /\ recent_games = RecentEmpty
    /\ boxscore = BoxFailed
    /\ weight = R(0)
    /\ total_score = R(0)
    /\ out = NoOut
    /\ listing = NoListing
    /\ games = <<>>
    /\ results = <<>>
    /\ nopbp = {}

RankingFrame == UNCHANGED <<pbp_cols, recent_games, boxscore, weight, total_score,
                            listing, nopbp>>

\* line 493: should_fetch_data()
ShouldFetch ==
    /\ pc = "entry"
    /\ LET s == should_fetch_data(last_data_fetch_time, data_cache, now)
       IN  /\ last_data_fetch_time' = s.time
           /\ pc' = IF s.should THEN "fetching" ELSE "cached"
    /\ UNCHANGED <<fetch, pbp_df, out, games, results, data_cache, now, depth, retry,
                   game_log>>
    /\ RankingFrame

\* lines 495-509: get_recent_games() returns None (n = 0) or n unique games
GetRecentGames ==
    /\ pc = "fetching"
    /\ \E n \in 0..MaxRankingGames :
         /\ games' = [k \in 1..games_to_process(n) |-> k]
         /\ pc' = IF n = 0 THEN "save" ELSE "loop"
    /\ results' = <<>>
    /\ game_log' = <<>>
    /\ retry' = 0
    /\ UNCHANGED <<fetch, pbp_df, out, last_data_fetch_time, data_cache, now, depth>>
    /\ RankingFrame

\* lines 519-536 and 612-616, one pass of the retry loop: the request
\* raises (re-raised on the last retry and caught by the except of the game,
\* which goes on with the next game), or returns a table (break); an empty
\* table skips the game
FetchAttempt ==
    /\ pc = "loop"
    /\ Len(game_log) < Len(games)
    /\ retry < max_retries
    /\ \E f \in RankingFetches :
         /\ fetch' = f
         /\ IF ~f.ok
            THEN IF retry = max_retries - 1
                 THEN /\ game_log' = Append(game_log,
                                            LogEntry(retry + 1, "failed", 0, 0, FALSE))
                      /\ retry' = 0
                      /\ pc' = "loop"
                      /\ pbp_df' = <<>>
                 ELSE /\ retry' = retry + 1
                      /\ UNCHANGED <<game_log, pc, pbp_df>>
            ELSE IF f.rows = <<>>
                 THEN /\ game_log' = Append(game_log,
                                            LogEntry(retry + 1, "empty", 0, 0, FALSE))
                      /\ retry' = 0
                      /\ pc' = "loop"
                      /\ pbp_df' = <<>>
                 ELSE /\ pbp_df' = f.rows
                      /\ pc' = "score"
                      /\ UNCHANGED <<game_log, retry>>
    /\ UNCHANGED <<out, games, results, last_data_fetch_time, data_cache, now, depth>>
    /\ RankingFrame

\* lines 538-616 for the game whose table was fetched: the three scorers
\* called with weights read from weight_config, the two retried sub-scorers
\* (fg3_fails and margin_fails failures in a row, the default 0 after
\* max_retries of them), the row appended; any exception is caught by the
\* except of the game, which goes on with the next game
ScoreGame ==
    /\ pc = "score"
    /\ \E fg3_fails \in SubScorerFailures, margin_fails \in SubScorerFailures :
         LET g == games[Len(game_log) + 1]
             raises == ScoringRaises(pbp_df)
         IN  /\ results' = IF raises THEN results
                           ELSE Append(results, ScoredRow(g, fg3_fails, margin_fails))
             /\ game_log' = Append(game_log,
                                   LogEntry(retry + 1, "table", fg3_fails, margin_fails,
                                            ~raises))
    /\ retry' = 0
    /\ pc' = "loop"
    /\ UNCHANGED <<fetch, pbp_df, out, games, last_data_fetch_time, data_cache, now,
                   depth>>
    /\ RankingFrame

\* lines 618-627: the loop is over
FinishLoop ==
    /\ pc = "loop"
    /\ Len(game_log) = Len(games)
    /\ pc' = "save"
    /\ UNCHANGED <<fetch, pbp_df, out, games, results, ranking_vars>>
    /\ RankingFrame

\* lines 629-634 and 647: save_data_to_cache(results_df), return results_df
SaveDataToCache ==
    /\ pc = "save"
    /\ \E wrote \in BOOLEAN :
         LET s == save_data_to_cache(results_df(results), data_cache, now, wrote)
         IN  /\ last_data_fetch_time' = s.time
             /\ data_cache' = s.cache
    /\ out' = Returned("process_data", results_df(results), <<>>)
    /\ pc' = "returned"
    /\ depth' = 0
    /\ UNCHANGED <<fetch, pbp_df, games, results, now, retry, game_log>>
    /\ RankingFrame

\* lines 635-653: the cache branch.  A missing table or one of at most 3
\* rows clears the cache and calls process_data() again; at the recursion
\* limit that call raises RecursionError, which the except of line 648
\* answers with the dummy table
UseCache ==
    /\ pc = "cached"
    /\ LET df == load_data_from_cache(data_cache)
       IN  IF df = <<>> \/ Len(df[1]) <= 3
           THEN /\ \E fs \in ClearOutcomes : data_cache' = clear_cache(data_cache, fs)
                /\ IF depth < RecursionLimit
                   THEN /\ depth' = depth + 1
                        /\ pc' = "entry"
                        /\ out' = out
                   ELSE /\ depth' = 0
                        /\ pc' = "returned"
                        /\ out' = Returned("process_data", create_dummy_data, <<>>)
           ELSE /\ out' = Returned("process_data", df[1], <<>>)
                /\ pc' = "returned"
                /\ depth' = 0
                /\ data_cache' = data_cache
    /\ UNCHANGED <<fetch, pbp_df, games, results, last_data_fetch_time, now, retry,
                   game_log>>
    /\ RankingFrame

\* process_data() is called again
CallProcessData ==
    /\ pc = "returned"
    /\ pc' = "entry"
    /\ depth' = 1
    /\ UNCHANGED <<fetch, pbp_df, out, games, results, last_data_fetch_time,
                   data_cache, now, retry, game_log>>
    /\ RankingFrame

\* time passes
Tick ==
    /\ now < MaxClock
    /\ now' = now + ClockStep
    /\ UNCHANGED <<pc, fetch, pbp_df, out, games, results, last_data_fetch_time,
                   data_cache, depth, retry, game_log>>
    /\ RankingFrame

NextRanking ==
    \/ ShouldFetch
    \/ GetRecentGames
    \/ FetchAttempt
    \/ ScoreGame
    \/ FinishLoop
    \/ SaveDataToCache
    \/ UseCache
    \/ CallProcessData
    \/ Tick

SpecRanking == InitRanking /\ [][NextRanking]_vars

\* ------------------------------------------------------------------------
\* Properties
\* ------------------------------------------------------------------------

Analysed == pc = "done" /\ out.fn = "analyze_game" /\ ~out.raised

HadPlayByPlay == get_play_by_play_data(fetch) # <<>>

InRange(x, lo, hi) == RGe(x, lo) /\ RLe(x, hi)

\* C1: for a non-empty play-by-play table, the Total Score that analyze_game
\* reports is a number in [0, 100].  (SpecGame)
C1_TotalScoreInRange ==
    (Analysed /\ HadPlayByPlay) => InRange(out.val.TotalScore, R(0), R(100))

\* the sum of the adjusted period weights
PeriodWeightSum == RSum([k \in 1..4 |-> ADJUSTED_PERIOD_WEIGHTS[k]])

\* C2: each of the seven sub-scores analyze_game reports is non-negative and
\* at most its configured weight x 100 (Period Scores: the sum of the
\* adjusted period weights x 100).  (SpecGame)
C2_SubScoresBounded ==
    Analysed =>
        /\ InRange(out.val.PeriodScores, R(0), RMul(PeriodWeightSum, R(100)))
        /\ InRange(out.val.ExtraPeriods, R(0), RMul(WEIGHT_CONFIG.extra_period_weight, R(100)))
        /\ InRange(out.val.LeadChanges, R(0), RMul(WEIGHT_CONFIG.lead_change_weight, R(100)))
        /\ InRange(out.val.BuzzerBeater, R(0), RMul(WEIGHT_CONFIG.buzzer_beater_weight, R(100)))
        /\ InRange(out.val.FG3_PCT, R(0), RMul(WEIGHT_CONFIG.fg3_pct_weight, R(100)))
        /\ InRange(out.val.StarPerformance, R(0),
                   RMul(WEIGHT_CONFIG.star_performance_weight, R(100)))
        /\ InRange(out.val.Margin, R(0), RMul(WEIGHT_CONFIG.margin_weight, R(100)))

\* C3: once create_dashboard has stopped, there is exactly one result record
\* per unique game it iterated, in order, and the record of a game without
\* obtainable play-by-play is the zeroed record with grade N/A.  (SpecDash)
C3_OneResultPerGame ==
    pc \in {"done", "raised"} =>
        /\ Len(results) = Len(games)
        /\ \A i \in 1..Len(games) :
              /\ results[i].GameID = games[i].GAME_ID
              /\ i \in nopbp => results[i] = EmptyResult(games[i].GAME_ID)

\* the thresholds of the grade scale, on a score given in tenths
GradeOfTenths(k) ==
    IF k >= 930 THEN "A+"
    ELSE IF k >= 850 THEN "A"
    ELSE IF k >= 800 THEN "B+"
    ELSE IF k >= 750 THEN "B"
    ELSE IF k >= 700 THEN "C+"
    ELSE IF k >= 650 THEN "C"
    ELSE "D"

Graded == pc = "done" /\ out.fn = "get_grade"

\* C4: get_grade returns exactly one of A+, A, B+, B, C+, C, D (never N/A),
\* the one the thresholds 93, 85, 80, 75, 70, 65 give; 93 -> A+, 92.9 -> A,
\* 65 -> C, 64.9 -> D.  (SpecGrade)
C4_GradeThresholds ==
    Graded =>
        /\ out.val \in {"A+", "A", "B+", "B", "C+", "C", "D"}
        /\ ~IsNaN(total_score) =>
              out.val = GradeOfTenths((10 * total_score[1]) \div total_score[2])
        /\ total_score = R(93) => out.val = "A+"
        /\ total_score = Q(929, 10) => out.val = "A"
        /\ total_score = R(65) => out.val = "C"
        /\ total_score = Q(649, 10) => out.val = "D"

C4_Witness == Graded /\ total_score = R(93) /\ out.val = "A+"

\* the non-tied numeric margins of a table as fetched, in order
NumericMargins(df) ==
    LET kept == SelectSeq(df, LAMBDA r : r.SCOREMARGIN.k = "STR")
    IN  [i \in 1..Len(kept) |-> kept[i].SCOREMARGIN.v]

\* the number of places where the sign differs from the previous one
SignFlips(m) == Cardinality({i \in 2..Len(m) : (m[i] > 0) # (m[i - 1] > 0)})

\* C5: the lead-change count of calculate_lead_changes_score is the number of
\* sign flips between consecutive non-tied numeric margins of the game, ties
\* and non-numeric entries being skipped; [5, -3, 2, -1] counts 3.  (SpecLead)
C5_LeadChangesSkipTies ==
    (pc = "done" /\ out.fn = "calculate_lead_changes_score") =>
        /\ out.val[1] = SignFlips(NumericMargins(fetch.rows))
        /\ NumericMargins(fetch.rows) = <<5, -3, 2, -1>> => out.val[1] = 3

Buzzed == pc = "done" /\ out.fn = "calculate_buzzer_beater_score"

InLast24(r) == RLe(convert_pctimestring_to_seconds(r.PCTIMESTRING), R(24))

\* C6: calculate_buzzer_beater_score flags a buzzer beater if and only if
\* some period has a made shot (type 1) or a free throw (type 3) with at most
\* 24 seconds on the clock; a missed shot (type 2) does not flag.  (SpecBuzzer)
C6_BuzzerFlagIffScoringEvent ==
    Buzzed =>
        (out.val[1] <=> \E i \in 1..Len(out.arg) :
                           InLast24(out.arg[i]) /\ out.arg[i].EVENTMSGTYPE \in {1, 3})

\* the rows of the table that record a margin (a number or 'TIE')
RecordedMargins(df) ==
    LET kept == SelectSeq(df, LAMBDA r : r.SCOREMARGIN.k \in {"TIE", "STR", "NUM"})
    IN  [i \in 1..Len(kept) |-> kept[i].SCOREMARGIN.v]

ScoreByFinalMargin(m, w) ==
    IF Abs(m) <= 3 THEN RMul(w, R(100))
    ELSE IF Abs(m) <= 5 THEN RMul(w, R(80))
    ELSE RMul(w, R(50))

\* C7: when the scorer flags a buzzer beater (line 131), it returns the flag
\* true and a score fixed by the absolute value of the game's final recorded
\* margin (a tie as 0): <= 3 weight x 100, <= 5 weight x 80, else
\* weight x 50.  (SpecBuzzer)
C7_BuzzerScoreByFinalMargin ==
    (Buzzed /\ \E i \in 1..Len(out.arg) :
                  InLast24(out.arg[i]) /\ out.arg[i].EVENTMSGTYPE \in BuzzerEventTypes) =>
        /\ out.val[1] = TRUE
        /\ LET m == RecordedMargins(out.arg)
           IN  m # <<>> => out.val[2] = ScoreByFinalMargin(m[Len(m)], weight)

\* the absolute margins recorded in the last five minutes (at most 300
\* seconds on the clock) of the final period
LastFiveMinutes(df) ==
    LET kept == SelectSeq(df, LAMBDA r :
                    /\ r.PERIOD = MaxPeriodOf(df)
                    /\ RLe(convert_pctimestring_to_seconds(r.PCTIMESTRING), R(300))
                    /\ r.SCOREMARGIN.k \in {"TIE", "STR", "NUM"})
    IN  [i \in 1..Len(kept) |-> R(Abs(kept[i].SCOREMARGIN.v))]

\* C8: the average margin of the margin scorer is the mean absolute margin
\* over the events of the final period in the last 5 minutes of that
\* period.  (SpecMargin)
C8_AverageMarginOverLastFiveMinutes ==
    (/\ pc = "done"
     /\ out.fn = "calculate_margin_and_star_performance_score"
     /\ boxscore.ok
     /\ out.arg # <<>>
     /\ LastFiveMinutes(out.arg) # <<>>) =>
        out.val[1] = Mean(LastFiveMinutes(out.arg))

PeriodScored == pc = "done" /\ out.fn = "calculate_period_score" /\ ~out.raised

NoQualifyingEvent(df) == \A i \in 1..Len(df) : df[i].SCORE.na

C10_NoExceptionCrossesScorer ==
    pc = "done" => ~out.raised

Parsed == pc = "done" /\ out.fn = "convert_pctimestring_to_seconds"

\* a clock string 'M:SS': decimal digits, one ':', decimal digits (with an
\* optional fraction of a second)
WellFormedClock(c) ==
    /\ ~c.na
    /\ Cardinality(Colons(c.s)) = 1
    /\ LET i == CHOOSE j \in Colons(c.s) : TRUE
           m == SubSeq(c.s, 1, i - 1)
           t == SubSeq(c.s, i + 1, Len(c.s))
       IN  /\ m # <<>> /\ AllDigits(m)
           /\ t # <<>> /\ ~HasSign(t) /\ PyFloatOk(t)

\* C11: convert_pctimestring_to_seconds never raises; a well-formed 'M:SS'
\* string yields minutes x 60 + seconds ('0:24' -> 24, '5:00' -> 300) and an
\* empty, missing or malformed string yields 0.  (SpecParser)
C11_ParserFailsSoft ==
    Parsed =>
        /\ ~out.raised
        /\ out.arg = T_0_24 => out.val = R(24)
        /\ out.arg = T_5_00 => out.val = R(300)
        /\ WellFormedClock(out.arg) =>
              LET i == CHOOSE j \in Colons(out.arg.s) : TRUE
              IN  out.val = RAdd(R(60 * DigitsVal(SubSeq(out.arg.s, 1, i - 1))),
                                 PyFloat(SubSeq(out.arg.s, i + 1, Len(out.arg.s))))
        /\ ~WellFormedClock(out.arg) => out.val = R(0)

\* C12: for every input the value convert_pctimestring_to_seconds returns is
\* non-negative.  (SpecParser)
C12_ParserNonNegative ==
    Parsed => RGe(out.val, R(0))

\* the grid of means k/2, k = 0..MaxMeanHalves, on which monotonicity of the
\* curves over a mean margin is checked
MaxMeanHalves == 50

NoBadToken(df) == \A i \in 1..Len(df) : df[i].SCOREMARGIN.k # "BAD"

\* the mean absolute margin over the rows with a recorded score (a tie and a
\* missing margin count 0)
MeanAbsMargin(df) ==
    LET kept == SelectSeq(df, LAMBDA r : ~r.SCORE.na)
    IN  Mean([i \in 1..Len(kept) |-> R(Abs(kept[i].SCOREMARGIN.v))])

ClaimedPeriodScore(m, w) ==
    IF RLe(m, R(7)) THEN RMul(w, R(100))
    ELSE IF RGt(m, R(20)) THEN R(0)
    ELSE RDiv(RMul(RMul(w, R(100)), RSub(R(20), m)), R(13))

\* C13: on a period with events and numeric margins, calculate_period_score
\* returns the mean absolute margin m of the scored events and the score
\* weight x 100 when m <= 7, 0 when m > 20, weight x 100 x (20 - m) / 13
\* otherwise; the score never increases when m grows.  (SpecPeriod)
C13_PeriodCurve ==
    (pc = "done" /\ out.fn = "calculate_period_score"
        /\ out.arg # <<>> /\ NoBadToken(out.arg)) =>
        /\ ~NoQualifyingEvent(out.arg) => out.val[1] = MeanAbsMargin(out.arg)
        /\ out.val[2] = ClaimedPeriodScore(out.val[1], weight)
        /\ \A k \in 0..(MaxMeanHalves - 1) :
              RLe(PeriodCurve(Q(k + 1, 2), weight), PeriodCurve(Q(k, 2), weight))

C13_Witness ==
    /\ pc = "done" /\ out.fn = "calculate_period_score"
    /\ out.arg # <<>> /\ NoBadToken(out.arg)
    /\ RGt(weight, R(0))
    /\ out.val[1] = Q(35, 2)
    /\ out.val[2] = RDiv(RMul(RMul(weight, R(100)), Q(5, 2)), R(13))

LeadScored == pc = "done" /\ out.fn = "calculate_lead_changes_score"

ClaimedLeadScore(c, w) ==
    IF c >= 12 THEN RMul(w, R(100))
    ELSE IF c <= 5 THEN R(0)
    ELSE RDiv(RMul(RMul(w, R(100)), R(c - 5)), R(7))

\* C14: calculate_lead_changes_score maps its lead-change count c to
\* weight x 100 when c >= 12, to 0 when c <= 5 and to
\* weight x 100 x (c - 5) / 7 otherwise; the score never decreases when c
\* grows.  (SpecLeadCurve)
C14_LeadCurve ==
    LeadScored =>
        /\ out.val[2] = ClaimedLeadScore(out.val[1], weight)
        /\ \A c \in 0..MaxCurveLen :
              RGe(LeadCurve(c + 1, weight), LeadCurve(c, weight))

C14_Witness ==
    /\ LeadScored
    /\ out.val[1] = 12
    /\ out.val[2] = RMul(weight, R(100))
    /\ RGt(weight, R(0))

Shot == pc = "done" /\ out.fn = "get_fg_fg3_pct_score" /\ ~out.raised

\* the team rows of the game scored (game_id = 1 in CallShooting)
TeamRowsOfGame == SelectSeq(recent_games.rows, LAMBDA r : r.GAME_ID = 1)

NumericPct(rows) == \A i \in 1..Len(rows) : ~IsNaN(rows[i].FG_PCT) /\ ~IsNaN(rows[i].FG3_PCT)

ClaimedFgScore(p, w) ==
    IF RGe(p, Q(1, 2)) THEN RMul(w, R(100))
    ELSE IF RLe(p, Q(2, 5)) THEN R(0)
    ELSE RMul(RMul(w, R(100)), RMul(RSub(p, Q(2, 5)), R(10)))

ClaimedFg3Score(p, w) ==
    IF RGe(p, Q(7, 20)) THEN RMul(w, R(100))
    ELSE IF RLe(p, Q(1, 4)) THEN R(0)
    ELSE RMul(RMul(w, R(100)), RMul(RSub(p, Q(1, 4)), R(10)))

\* the greatest element of a non-empty set of numbers
Greatest(S) == CHOOSE x \in S : \A y \in S : RLe(y, x)

\* C15: for a game whose team rows carry numeric percentages,
\* get_fg_fg3_pct_score scores FG% (>= 0.5 -> weight x 100, <= 0.4 -> 0,
\* linear between) and FG3% (>= 0.35 -> weight x 100, <= 0.25 -> 0, linear
\* between) of each row independently, returns the best of each metric, and
\* the combined score is the maximum over both metrics and both teams; fg
\* 0.5, fg3 0.2, weight 0.05 gives 5, 0 and 5.  (SpecShooting)
C15_ShootingBestSingleValue ==
    (/\ Shot
     /\ recent_games.has_GAME_ID /\ recent_games.has_PCT
     /\ TeamRowsOfGame # <<>> /\ NumericPct(TeamRowsOfGame)) =>
        LET rows == TeamRowsOfGame
            fg   == {ClaimedFgScore(rows[i].FG_PCT, weight) : i \in 1..Len(rows)}
            fg3  == {ClaimedFg3Score(rows[i].FG3_PCT, weight) : i \in 1..Len(rows)}
        IN  /\ out.val = <<Greatest(fg), Greatest(fg3), Greatest(fg \cup fg3)>>
            /\ (rows = <<TeamRow(1, Q(1, 2), Q(1, 5))>> /\ weight = Q(5, 100)) =>
                  out.val = <<R(5), R(0), R(5)>>

C15_Witness ==
    /\ Shot
    /\ recent_games.has_GAME_ID /\ recent_games.has_PCT
    /\ Len(TeamRowsOfGame) = 2
    /\ TeamRowsOfGame[1] = TeamRow(1, Q(45, 100), Q(20, 100))
    /\ TeamRowsOfGame[2] = TeamRow(1, Q(38, 100), Q(30, 100))
    /\ out.val = <<Q(5, 2), Q(5, 2), Q(5, 2)>>

MarginScored == pc = "done" /\ out.fn = "calculate_margin_and_star_performance_score"

\* the call reached its return statement of line 279 (no exception)
MarginCallCompleted ==
    /\ MarginScored
    /\ boxscore.ok
    /\ MarginWindow(out.arg) = <<>> \/ IsFloatCol(MarginWindow(out.arg))

\* C16: when the margin scorer completes with a numeric average margin, the
\* margin sub-score is weight x 100 when the average is <= 5, 0 when it is
\* >= 15, and weight x 100 x (15 - average) / 10 in between.  (SpecMargin)
C16_MarginCurve ==
    (MarginCallCompleted /\ ~IsNaN(out.val[1])) =>
        /\ RLe(out.val[1], R(5)) => out.val[2] = RMul(WEIGHT_CONFIG.margin_weight, R(100))
        /\ RGe(out.val[1], R(15)) => out.val[2] = R(0)
        /\ (RGt(out.val[1], R(5)) /\ RLt(out.val[1], R(15))) =>
              out.val[2] = RDiv(RMul(RMul(WEIGHT_CONFIG.margin_weight, R(100)),
                                     RSub(R(15), out.val[1])), R(10))

C16_Witness ==
    /\ MarginCallCompleted
    /\ out.val[1] = R(6)
    /\ out.val[2] = RMul(WEIGHT_CONFIG.margin_weight, R(90))

\* the numeric point totals of the box score
PointTotals == {boxscore.PTS[i] : i \in 1..Len(boxscore.PTS)} \ {NaN}

\* C17: when the scorer completes on a box score with at least one point
\* total, max_points is the single highest individual point total and the
\* star-performance sub-score is weight x 100 when it is >= 35, 0 when it is
\* <= 20, and weight x 100 x (max_points - 20) / 15 in between.  (SpecStar)
C17_StarCurve ==
    (MarginCallCompleted /\ boxscore.has_PTS /\ PointTotals # {}) =>
        /\ out.val[3] = Greatest(PointTotals)
        /\ RGe(out.val[3], R(35)) =>
              out.val[4] = RMul(WEIGHT_CONFIG.star_performance_weight, R(100))
        /\ RLe(out.val[3], R(20)) => out.val[4] = R(0)
        /\ (RGt(out.val[3], R(20)) /\ RLt(out.val[3], R(35))) =>
              out.val[4] = RDiv(RMul(RMul(WEIGHT_CONFIG.star_performance_weight, R(100)),
                                     RSub(out.val[3], R(20))), R(15))

C17_Witness ==
    /\ MarginCallCompleted
    /\ boxscore = Box(<<R(27), R(18)>>)
    /\ out.val[3] = R(27)
    /\ out.val[4] = RDiv(RMul(WEIGHT_CONFIG.star_performance_weight, R(700)), R(15))

\* C18: whenever a scorer's data is missing, analyze_game still returns a
\* result and the affected sub-score is 0: no event in the regulation periods
\* -> Period Scores 0; no team row of the game -> FG3_PCT 0; no event in the
\* margin scorer's window -> Margin 0; no play-by-play at all -> the zeroed
\* record.  (SpecGame)
C18_MissingDataScoresZero ==
    (pc = "done" /\ out.fn = "analyze_game") =>
        /\ ~out.raised
        /\ ~HadPlayByPlay => out.val = EmptyResult(1)
        /\ HadPlayByPlay =>
              /\ (\A i \in 1..Len(pbp_df) : pbp_df[i].PERIOD \notin 1..4) =>
                    out.val.PeriodScores = R(0)
              /\ (\A i \in 1..Len(recent_games.rows) : recent_games.rows[i].GAME_ID # 1) =>
                    out.val.FG3_PCT = R(0)
              /\ MarginWindow(pbp_df) = <<>> => out.val.Margin = R(0)

\* a margin cell with the safe default: a number is itself, anything else
\* (a tie, a missing value, a non-numeric token) is 0
MarginOrDefault(c) == IF c.k \in {"STR", "NUM"} THEN c.v ELSE 0

MeanWithDefault(df) ==
    LET kept == SelectSeq(df, LAMBDA r : ~r.SCORE.na)
    IN  Mean([i \in 1..Len(kept) |-> R(Abs(MarginOrDefault(kept[i].SCOREMARGIN)))])

\* C19: a malformed margin token met by calculate_period_score is replaced
\* by the default 0 and not propagated: the call does not raise and returns
\* the mean and the score over the events of the period, the malformed one
\* counted as 0 and the well-formed ones as they are.  (SpecPeriod)
C19_MalformedTokenDefaultsToZero ==
    (pc = "done" /\ out.fn = "calculate_period_score"
        /\ out.arg # <<>> /\ ~NoQualifyingEvent(out.arg)) =>
        /\ ~out.raised
        /\ out.val = <<MeanWithDefault(out.arg),
                       ClaimedPeriodScore(MeanWithDefault(out.arg), weight)>>

\* C20: the four period weights summed and scaled by max_total_score, plus
\* the six scalar weights (extra-period, lead-change, buzzer-beater,
\* shooting, star-performance, margin), equal exactly 1; so the full margin
\* sub-score analyze_game awards is what the other weights leave of
\* 100.  (SpecGame)
C20_WeightsSumToOne ==
    /\ RAdd(RMul(RSum(WEIGHT_CONFIG.period_weights), WEIGHT_CONFIG.max_total_score),
            RSum(<<WEIGHT_CONFIG.extra_period_weight,
                   WEIGHT_CONFIG.lead_change_weight,
                   WEIGHT_CONFIG.buzzer_beater_weight,
                   WEIGHT_CONFIG.fg3_pct_weight,
                   WEIGHT_CONFIG.star_performance_weight,
                   WEIGHT_CONFIG.margin_weight>>)) = R(1)
    /\ (Analysed /\ HadPlayByPlay /\ MarginWindow(pbp_df) = <<>> /\ boxscore.ok) =>
          out.val.Margin = Round1(RSub(R(100),
              RMul(R(100), RAdd(RMul(RSum(WEIGHT_CONFIG.period_weights),
                                     WEIGHT_CONFIG.max_total_score),
                                RSum(<<WEIGHT_CONFIG.extra_period_weight,
                                       WEIGHT_CONFIG.lead_change_weight,
                                       WEIGHT_CONFIG.buzzer_beater_weight,
                                       WEIGHT_CONFIG.fg3_pct_weight,
                                       WEIGHT_CONFIG.star_performance_weight>>)))))

\* a game scored with the full margin weight and the full first-period weight
C20_Witness ==
    /\ Analysed /\ HadPlayByPlay
    /\ MarginWindow(pbp_df) = <<>> /\ boxscore.ok
    /\ out.val.Margin = R(25)
    /\ out.val.PeriodScores = Q(33, 2)

\* C21: no scorer and no preprocessing step changes the table it is given:
\* after process_play_by_play_data or a scorer has returned, the caller's
\* play-by-play table has the cell values it was fetched with and no added
\* column.  (SpecMargin)
C21_CallerTableUnchanged ==
    pc \in {"processed", "done"} => (pbp_df = fetch.rows /\ pbp_cols = {})

\* C22: in every result of analyze_game on non-empty play-by-play the
\* reported Grade is get_grade of the reported Total Score, the total
\* rounded to one decimal: the total is rounded before it is graded.
\* (SpecClose)
C22_GradeOfReportedTotal ==
    (Analysed /\ HadPlayByPlay) => out.val.Grade = get_grade(out.val.TotalScore)

\* the sub-scores of a result record, in the order of the ScoreBreakdown
SubScores(rec) ==
    <<rec.PeriodScores, rec.ExtraPeriods, rec.LeadChanges, rec.BuzzerBeater,
      rec.FG3_PCT, rec.StarPerformance, rec.Margin>>

\* C23: in every result of analyze_game the reported Total Score is the sum
\* of the seven reported sub-scores.  (SpecGame)
C23_TotalIsSumOfReported ==
    (pc = "done" /\ out.fn = "analyze_game" /\ ~out.raised) =>
        out.val.TotalScore = RSum(SubScores(out.val))

\* C25: the lead-change count obtained the way analyze_game obtains it
\* (process_play_by_play_data on the table, then
\* calculate_lead_changes_score) equals the count the scorer gives on the
\* margins as fetched, 'TIE' entries included.  (SpecLead)
C25_ProcessingKeepsLeadCount ==
    LeadScored => out.val[1] = calculate_lead_changes_score(fetch.rows, weight)[1]

C29_BoxScoreFailureZeroes ==
    (MarginScored /\ ~boxscore.ok) =>
        /\ out.val = <<R(0), R(0), R(0), R(0)>>
        /\ "PCTIMESECONDS" \notin pbp_cols

C29_Witness ==
    /\ MarginScored /\ ~boxscore.ok
    /\ out.arg = process_play_by_play_data(<<Play(4, T_5_00, STR(2))>>)
    /\ out.val = <<R(0), R(0), R(0), R(0)>>
    /\ "PCTIMESECONDS" \notin pbp_cols

\* the rows of the regulation periods
Regulation(df) == SelectSeq(df, LAMBDA r : r.PERIOD <= 4)

\* C30: the Extra Periods sub-score of analyze_game is
\* extra_period_weight x 100 if the play-by-play has a period numbered above
\* 4 and 0 otherwise, however many such periods there are, and the rows of
\* periods above 4 add nothing to Period Scores.  (SpecOvertime)
C30_ExtraPeriodsFlat ==
    (Analysed /\ HadPlayByPlay) =>
        /\ out.val.ExtraPeriods =
              IF \E i \in 1..Len(fetch.rows) : fetch.rows[i].PERIOD > 4
              THEN RMul(WEIGHT_CONFIG.extra_period_weight, R(100)) ELSE R(0)
        /\ out.val.PeriodScores =
              analyze_game(1, Fetched(Regulation(fetch.rows)), recent_games,
                           boxscore).rec.PeriodScores

C30_Witness ==
    /\ Analysed
    /\ \E i \in 1..Len(fetch.rows) : fetch.rows[i].PERIOD = 6
    /\ \E i \in 1..Len(fetch.rows) : fetch.rows[i].PERIOD = 3 /\ ~fetch.rows[i].SCORE.na
    /\ out.val.ExtraPeriods = R(5)
    /\ out.val.PeriodScores = Q(131, 10)

\* the rows of the results list that belong to the i-th game of the loop
RowsOf(i) == {k \in 1..Len(results) : results[k].Game = games[i]}

\* the loop of process_data is running or has just ended
InLoop == pc \in {"loop", "score", "save"}

\* C27: in process_data every game whose play-by-play request returned a
\* non-empty table has exactly one row in the results list, and the table
\* about to be saved is the dummy 'No Data' table only when no game of the
\* loop had its play-by-play fetched.  (SpecRanking)
C27_FetchedGamesAreScored ==
    InLoop =>
        /\ \A i \in 1..Len(game_log) :
             game_log[i].pbp = "table" => Cardinality(RowsOf(i)) = 1
        /\ (pc = "save" /\ results_df(results) = create_dummy_data) =>
               \A i \in 1..Len(game_log) : game_log[i].pbp # "table"

\* the play-by-play request of a game is made at most max_retries times and
\* not again after it returned; a game is given up only after max_retries
\* failures, without a row, and the loop goes on
C24_FetchRetries ==
    InLoop =>
        /\ retry < max_retries
        /\ pc = "score" => (fetch.ok /\ fetch.rows # <<>> /\ pbp_df = fetch.rows)
        /\ \A i \in 1..Len(game_log) :
             /\ game_log[i].tries \in 1..max_retries
             /\ game_log[i].pbp = "failed" =>
                    (game_log[i].tries = max_retries /\ RowsOf(i) = {})

\* a game whose sub-scorer failed max_retries times in a row keeps its row,
\* with the default 0 in the place of that sub-score
C24_SubScorerFallback ==
    InLoop =>
        \A i \in 1..Len(game_log) :
            (game_log[i].pbp = "table" /\ game_log[i].fg3_fails = max_retries) =>
                \E k \in RowsOf(i) : results[k].FG3_PCT = "0"

C26_RetryFetchesFresh ==
    depth > 1 => (depth = 2 /\ pc # "cached")

====
